---- MODULE Spec2Model ----
(***************************************************************************)
(* Model of libnfs4acl-go: the NFSv4 ACL xattr codec (XAttrLoad,           *)
(* PackXAttr), the ACE entity (NewNFS4ACE, AceGetWhoType, mask mutators,   *)
(* PrintACE), the ACL mutation API and the OS bridge (Nfs4GetAcl,          *)
(* Nfs4_setacl_for_path).                                                  *)
(*                                                                         *)
(* Representation.  A Go string and a []byte are sequences of byte values  *)
(* (0..255).  A []byte argument is the record [bytes, len]: bytes is the   *)
(* backing array from the slice's start up to its capacity and len is the  *)
(* slice's length, so cap = Len(bytes) >= len.  uint32 values are naturals;*)
(* the inputs keep them below 2^31, where int(uint32) is the same number   *)
(* on 32-bit and 64-bit builds.                                            *)
(***************************************************************************)
EXTENDS Integers, Sequences, FiniteSets

VARIABLES pc, acl, old, call, err, value, xattr, origin, trace,
          padded, stdout, events

vars == <<pc, acl, old, call, err, value, xattr, origin, trace,
          padded, stdout, events>>

\* what the codec and the mutation API never touch
io == <<padded, stdout, events>>

(***************************************************************************)
(* Bounds of the model.                                                    *)
(***************************************************************************)
\* largest number of entries of an assembled ACL or of a generated buffer
MaxAces == 2

\* largest who length given to AceWhoStringAtomLength on its own
MaxWhoLength == 120

(***************************************************************************)
(* Program constants.                                                      *)
(***************************************************************************)
ATOM_SIZE == 4

\* "OWNER@"
NFS4_ACL_WHO_OWNER_STRING == <<79, 87, 78, 69, 82, 64>>
\* "GROUP@"
NFS4_ACL_WHO_GROUP_STRING == <<71, 82, 79, 85, 80, 64>>
\* "EVERYONE@"
NFS4_ACL_WHO_EVERYONE_STRING == <<69, 86, 69, 82, 89, 79, 78, 69, 64>>

NFS4_ACL_WHO_NAMED == 0
NFS4_ACL_WHO_OWNER == 1
NFS4_ACL_WHO_GROUP == 2
NFS4_ACL_WHO_EVERYONE == 3

NFS4_ACE_ACCESS_ALLOWED_ACE_TYPE == 0
NFS4_ACE_ACCESS_DENIED_ACE_TYPE == 1
NFS4_ACE_SYSTEM_AUDIT_ACE_TYPE == 2
NFS4_ACE_SYSTEM_ALARM_ACE_TYPE == 3

\* ACE type display characters
TYPE_ALLOW == 65  \* 'A'
TYPE_DENY == 68  \* 'D'
TYPE_AUDIT == 85  \* 'U'
TYPE_ALARM == 76  \* 'L'

\* ACE flags
NFS4_ACE_FILE_INHERIT_ACE == 1
NFS4_ACE_DIRECTORY_INHERIT_ACE == 2
NFS4_ACE_NO_PROPAGATE_INHERIT_ACE == 4
NFS4_ACE_INHERIT_ONLY_ACE == 8
NFS4_ACE_SUCCESSFUL_ACCESS_ACE_FLAG == 16
NFS4_ACE_FAILED_ACCESS_ACE_FLAG == 32
NFS4_ACE_IDENTIFIER_GROUP == 64
NFS4_ACE_OWNER == 128
NFS4_ACE_GROUP == 256
NFS4_ACE_EVERYONE == 512

\* ACE flag display characters
FLAG_FILE_INHERIT == 102  \* 'f'
FLAG_DIR_INHERIT == 100  \* 'd'
FLAG_NO_PROPAGATE_INHERIT == 110  \* 'n'
FLAG_INHERIT_ONLY == 105  \* 'i'
FLAG_SUCCESSFUL_ACCESS == 83  \* 'S'
FLAG_FAILED_ACCESS == 70  \* 'F'
FLAG_GROUP == 103  \* 'g'
FLAG_OWNER_AT == 79  \* 'O'
FLAG_GROUP_AT == 71  \* 'G'
FLAG_EVERYONE_AT == 69  \* 'E'

\* ACE access mask values
NFS4_ACE_READ_DATA == 1
NFS4_ACE_LIST_DIRECTORY == 1
NFS4_ACE_WRITE_DATA == 2
NFS4_ACE_ADD_FILE == 2
NFS4_ACE_APPEND_DATA == 4
NFS4_ACE_ADD_SUBDIRECTORY == 4
NFS4_ACE_READ_NAMED_ATTRS == 8
NFS4_ACE_WRITE_NAMED_ATTRS == 16
NFS4_ACE_EXECUTE == 32
NFS4_ACE_DELETE_CHILD == 64
NFS4_ACE_READ_ATTRIBUTES == 128
NFS4_ACE_WRITE_ATTRIBUTES == 256
NFS4_ACE_DELETE == 65536
NFS4_ACE_READ_ACL == 131072
NFS4_ACE_WRITE_ACL == 262144
NFS4_ACE_WRITE_OWNER == 524288
NFS4_ACE_SYNCHRONIZE == 1048576

\* ACE access mask display characters
PERM_READ_DATA == 114  \* 'r'
PERM_WRITE_DATA == 119  \* 'w'
PERM_APPEND_DATA == 97  \* 'a'
PERM_LIST_DIR == PERM_READ_DATA
PERM_CREATE_FILE == PERM_WRITE_DATA
PERM_CREATE_SUBDIR == PERM_APPEND_DATA
PERM_DELETE_CHILD == 68  \* 'D'
PERM_DELETE == 100  \* 'd'
PERM_EXECUTE == 120  \* 'x'
PERM_READ_ATTR == 116  \* 't'
PERM_WRITE_ATTR == 84  \* 'T'
PERM_READ_NAMED_ATTR == 110  \* 'n'
PERM_WRITE_NAMED_ATTR == 78  \* 'N'
PERM_READ_ACL == 99  \* 'c'
PERM_WRITE_ACL == 67  \* 'C'
PERM_WRITE_OWNER == 111  \* 'o'
PERM_SYNCHRONIZE == 121  \* 'y'

(***************************************************************************)
(* Go's integer operators on uint32.                                       *)
(***************************************************************************)
RECURSIVE BitOr(_, _)
\* a | b
BitOr(a, b) ==
  IF a = 0 THEN b
  ELSE IF b = 0 THEN a
  ELSE (IF a % 2 = 1 \/ b % 2 = 1 THEN 1 ELSE 0) + 2 * BitOr(a \div 2, b \div 2)

RECURSIVE BitAndNot(_, _)
\* a &^ b
BitAndNot(a, b) ==
  IF a = 0 THEN 0
  ELSE IF b = 0 THEN a
  ELSE (IF a % 2 = 1 /\ b % 2 = 0 THEN 1 ELSE 0) + 2 * BitAndNot(a \div 2, b \div 2)

RECURSIVE BitAnd(_, _)
\* a & b
BitAnd(a, b) ==
  IF a = 0 \/ b = 0 THEN 0
  ELSE (IF a % 2 = 1 /\ b % 2 = 1 THEN 1 ELSE 0) + 2 * BitAnd(a \div 2, b \div 2)

\* binary.BigEndian.Uint32(b[off:]) for off + 4 <= len(b)
BigEndianUint32(b, off) ==
  b[off + 1] * 16777216 + b[off + 2] * 65536 + b[off + 3] * 256 + b[off + 4]

\* the bytes in little-endian order
LittleEndianPutUint32(v) ==
  << v % 256, (v \div 256) % 256, (v \div 65536) % 256, (v \div 16777216) % 256 >>

\* the four bytes binary.BigEndian.PutUint32 stores for v
BigEndianPutUint32(v) ==
  << (v \div 16777216) % 256, (v \div 65536) % 256, (v \div 256) % 256, v % 256 >>

(***************************************************************************)
(* ACE entity.                                                             *)
(***************************************************************************)
\* matches a well-known token as a prefix of who
AceGetWhoTypePrefix(who) ==
  IF Len(who) >= 6 /\ SubSeq(who, 1, 6) = NFS4_ACL_WHO_OWNER_STRING
    THEN NFS4_ACL_WHO_OWNER
  ELSE IF Len(who) >= 6 /\ SubSeq(who, 1, 6) = NFS4_ACL_WHO_GROUP_STRING
    THEN NFS4_ACL_WHO_GROUP
  ELSE IF Len(who) >= 9 /\ SubSeq(who, 1, 9) = NFS4_ACL_WHO_EVERYONE_STRING
    THEN NFS4_ACL_WHO_EVERYONE
  ELSE NFS4_ACL_WHO_NAMED

AceGetWhoType(who) ==
  IF who = NFS4_ACL_WHO_OWNER_STRING THEN NFS4_ACL_WHO_OWNER
  ELSE IF who = NFS4_ACL_WHO_GROUP_STRING THEN NFS4_ACL_WHO_GROUP
  ELSE IF who = NFS4_ACL_WHO_EVERYONE_STRING THEN NFS4_ACL_WHO_EVERYONE
  ELSE NFS4_ACL_WHO_NAMED

AceWhoStringAtomLengthAlways(whoLength) ==
  LET whoIncrement == (whoLength \div ATOM_SIZE) * ATOM_SIZE
  IN IF whoIncrement <= whoLength THEN whoIncrement + ATOM_SIZE ELSE whoIncrement

AceWhoStringAtomLength(whoLength) ==
  LET whoIncrement == (whoLength \div ATOM_SIZE) * ATOM_SIZE
  IN IF whoIncrement < whoLength THEN whoIncrement + ATOM_SIZE ELSE whoIncrement

NewNFS4ACE(aceType, flag, mask, who) ==
  [AceType |-> aceType, WhoType |-> AceGetWhoType(who), Who |-> who,
   Flags |-> flag, AccessMask |-> mask]

applyAccessMask(ace, accessMask) ==
  [ace EXCEPT !.AccessMask = BitOr(ace.AccessMask, accessMask)]

\* a & b in place of a &^ b
removeAccessMaskAnd(ace, accessMask) ==
  [ace EXCEPT !.AccessMask =
     BitAndNot(ace.AccessMask, BitAndNot(ace.AccessMask, accessMask))]

removeAccessMask(ace, accessMask) ==
  [ace EXCEPT !.AccessMask = BitAndNot(ace.AccessMask, accessMask)]

\* the entry rebuilt around the new mask, its who type left at the zero value
setAccessMaskRebuilt(ace, accessMask) ==
  [ace EXCEPT !.AccessMask = accessMask, !.WhoType = NFS4_ACL_WHO_NAMED]

setAccessMask(ace, accessMask) ==
  [ace EXCEPT !.AccessMask = accessMask]

(***************************************************************************)
(* PrintACE.  The print buffer is the sequence of the bytes written so     *)
(* far; PrintACE is the line it hands to fmt.Println, newline included.    *)
(***************************************************************************)
\* if v&bit != 0 { buffer.WriteRune(char) }
WriteRuneIf(v, bit, char) == IF BitAnd(v, bit) # 0 THEN <<char>> ELSE <<>>

\* the two switches on ace.AceType; neither has a default case
WriteAceType(aceType, verbose) ==
  IF verbose
    THEN IF aceType = NFS4_ACE_ACCESS_ALLOWED_ACE_TYPE THEN <<65, 76, 76, 79, 87>>
         ELSE IF aceType = NFS4_ACE_ACCESS_DENIED_ACE_TYPE THEN <<68, 69, 78, 89>>
         ELSE IF aceType = NFS4_ACE_SYSTEM_AUDIT_ACE_TYPE THEN <<65, 85, 68, 73, 84>>
         ELSE IF aceType = NFS4_ACE_SYSTEM_ALARM_ACE_TYPE THEN <<65, 76, 65, 82, 77>>
         ELSE <<>>
    ELSE IF aceType = NFS4_ACE_ACCESS_ALLOWED_ACE_TYPE THEN <<TYPE_ALLOW>>
         ELSE IF aceType = NFS4_ACE_ACCESS_DENIED_ACE_TYPE THEN <<TYPE_DENY>>
         ELSE IF aceType = NFS4_ACE_SYSTEM_AUDIT_ACE_TYPE THEN <<TYPE_AUDIT>>
         ELSE IF aceType = NFS4_ACE_SYSTEM_ALARM_ACE_TYPE THEN <<TYPE_ALARM>>
         ELSE <<>>

WriteAceFlags(flags) ==
  WriteRuneIf(flags, NFS4_ACE_FILE_INHERIT_ACE, FLAG_FILE_INHERIT)
    \o WriteRuneIf(flags, NFS4_ACE_DIRECTORY_INHERIT_ACE, FLAG_DIR_INHERIT)
    \o WriteRuneIf(flags, NFS4_ACE_NO_PROPAGATE_INHERIT_ACE, FLAG_NO_PROPAGATE_INHERIT)
    \o WriteRuneIf(flags, NFS4_ACE_INHERIT_ONLY_ACE, FLAG_INHERIT_ONLY)
    \o WriteRuneIf(flags, NFS4_ACE_SUCCESSFUL_ACCESS_ACE_FLAG, FLAG_SUCCESSFUL_ACCESS)
    \o WriteRuneIf(flags, NFS4_ACE_FAILED_ACCESS_ACE_FLAG, FLAG_FAILED_ACCESS)
    \o WriteRuneIf(flags, NFS4_ACE_IDENTIFIER_GROUP, FLAG_GROUP)
    \o WriteRuneIf(flags, NFS4_ACE_OWNER, FLAG_OWNER_AT)
    \o WriteRuneIf(flags, NFS4_ACE_GROUP, FLAG_GROUP_AT)
    \o WriteRuneIf(flags, NFS4_ACE_EVERYONE, FLAG_EVERYONE_AT)

\* the file-specific characters, whatever isDir says
WriteContextMaskFileOnly(mask, isDir) ==
  WriteRuneIf(mask, NFS4_ACE_READ_DATA, PERM_READ_DATA)
    \o WriteRuneIf(mask, NFS4_ACE_WRITE_DATA, PERM_WRITE_DATA)
    \o WriteRuneIf(mask, NFS4_ACE_APPEND_DATA, PERM_APPEND_DATA)

\* if isDir { ... } else { ... }
WriteContextMask(mask, isDir) ==
  IF isDir
    THEN WriteRuneIf(mask, NFS4_ACE_LIST_DIRECTORY, PERM_LIST_DIR)
           \o WriteRuneIf(mask, NFS4_ACE_ADD_FILE, PERM_CREATE_FILE)
           \o WriteRuneIf(mask, NFS4_ACE_ADD_SUBDIRECTORY, PERM_CREATE_SUBDIR)
           \o WriteRuneIf(mask, NFS4_ACE_DELETE_CHILD, PERM_DELETE_CHILD)
    ELSE WriteRuneIf(mask, NFS4_ACE_READ_DATA, PERM_READ_DATA)
           \o WriteRuneIf(mask, NFS4_ACE_WRITE_DATA, PERM_WRITE_DATA)
           \o WriteRuneIf(mask, NFS4_ACE_APPEND_DATA, PERM_APPEND_DATA)

WriteCommonMask(mask) ==
  WriteRuneIf(mask, NFS4_ACE_DELETE, PERM_DELETE)
    \o WriteRuneIf(mask, NFS4_ACE_EXECUTE, PERM_EXECUTE)
    \o WriteRuneIf(mask, NFS4_ACE_READ_ATTRIBUTES, PERM_READ_ATTR)
    \o WriteRuneIf(mask, NFS4_ACE_WRITE_ATTRIBUTES, PERM_WRITE_ATTR)
    \o WriteRuneIf(mask, NFS4_ACE_READ_NAMED_ATTRS, PERM_READ_NAMED_ATTR)
    \o WriteRuneIf(mask, NFS4_ACE_WRITE_NAMED_ATTRS, PERM_WRITE_NAMED_ATTR)
    \o WriteRuneIf(mask, NFS4_ACE_READ_ACL, PERM_READ_ACL)
    \o WriteRuneIf(mask, NFS4_ACE_WRITE_ACL, PERM_WRITE_ACL)
    \o WriteRuneIf(mask, NFS4_ACE_WRITE_OWNER, PERM_WRITE_OWNER)
    \o WriteRuneIf(mask, NFS4_ACE_SYNCHRONIZE, PERM_SYNCHRONIZE)

\* ':'
COLON == 58

\* the line terminator fmt.Println appends
NEWLINE == 10

\* ace.PrintACE(verbose, isDir): the bytes written to standard output and
\* the error returned
PrintACE(ace, verbose, isDir) ==
  [out |-> WriteAceType(ace.AceType, verbose) \o <<COLON>>
             \o WriteAceFlags(ace.Flags) \o <<COLON>>
             \o ace.Who \o <<COLON>>
             \o WriteContextMask(ace.AccessMask, isDir)
             \o WriteCommonMask(ace.AccessMask)
             \o <<NEWLINE>>,
   err |-> "nil"]

(***************************************************************************)
(* Decoder.  XAttrLoad returns its named results (newACL, err); a Go       *)
(* run-time panic is the status "panic", in which nothing is returned.     *)
(* The result also records what the decoder did: reads is the set of       *)
(* buffer offsets of the atoms and who bytes it read, starts the cursor at *)
(* the start of every loop iteration, whoLens the who_length atom of every *)
(* header it read, padsZero whether all padding bytes it skipped were 0,   *)
(* and curAtom the final cursor.                                           *)
(***************************************************************************)
\* line 142: the buffer cannot hold the entry count
BufferTooShort(maxAtom) == maxAtom < ATOM_SIZE

\* line 161: the cursor is at or past the end of the buffer
CursorPastEnd(curAtom, maxAtom) == curAtom >= maxAtom

\* room for three atoms instead of four
HeaderOverflowsThree(curAtom, maxAtom) == (curAtom + (ATOM_SIZE * 3)) >= maxAtom

\* line 170: no room for the four header atoms
HeaderOverflows(curAtom, maxAtom) == (curAtom + (ATOM_SIZE * 4)) >= maxAtom

\* line 192: value[curAtom:(whoLen + curAtom)] is in range iff the upper
\* index is at most cap(value) (Go slice expressions are checked against the
\* capacity, not the length)
WhoSliceInRange(val, curAtom, whoLen) == whoLen <= Len(val.bytes) - curAtom

\* the bytes of buf at offsets from .. to-1 that are all zero
AllZero(buf, from, to) ==
  \A i \in (from + 1)..to : i <= Len(buf) => buf[i] = 0

RECURSIVE LoadLoop(_, _, _, _)
LoadLoop(val, numAces, curAce, s) ==
  LET maxAtom == val.len
      curAtom == s.curAtom
      started == [s EXCEPT !.starts = Append(@, curAtom)]
  IN IF ~(curAce < numAces) THEN s
     ELSE IF CursorPastEnd(curAtom, maxAtom)
       THEN [started EXCEPT !.status = "error", !.err = "buffer overflow"]
     ELSE IF HeaderOverflows(curAtom, maxAtom)
       THEN [started EXCEPT !.status = "error", !.err = "buffer overflow"]
     ELSE IF curAtom + (ATOM_SIZE * 4) > maxAtom
       \* binary.BigEndian.Uint32 on a slice shorter than 4 bytes panics
       THEN [started EXCEPT !.status = "panic", !.err = "index out of range",
                            !.reads = @ \cup {curAtom}]
     ELSE
       LET aceType == BigEndianUint32(val.bytes, curAtom)
           aceFlag == BigEndianUint32(val.bytes, curAtom + ATOM_SIZE)
           aceMask == BigEndianUint32(val.bytes, curAtom + 2 * ATOM_SIZE)
           whoLen  == BigEndianUint32(val.bytes, curAtom + 3 * ATOM_SIZE)
           whoAt   == curAtom + 4 * ATOM_SIZE
           hdr     == [started EXCEPT
                         !.reads = @ \cup {curAtom + k * ATOM_SIZE : k \in 0..3},
                         !.whoLens = Append(@, whoLen)]
       IN IF ~WhoSliceInRange(val, whoAt, whoLen)
            THEN [hdr EXCEPT !.status = "panic",
                             !.err = "slice bounds out of range"]
          ELSE
            LET aceWho == SubSeq(val.bytes, whoAt + 1, whoAt + whoLen)
                next   == whoAt + AceWhoStringAtomLength(whoLen)
                newACE == NewNFS4ACE(aceType, aceFlag, aceMask, aceWho)
            IN LoadLoop(val, numAces, curAce + 1,
                 [hdr EXCEPT
                    !.curAtom = next,
                    !.reads = @ \cup {whoAt + k : k \in 0..(whoLen - 1)},
                    !.padsZero = @ /\ AllZero(val.bytes, whoAt + whoLen, next),
                    !.aceList = Append(@, newACE)])

XAttrLoad(val, isDir) ==
  LET s0 == [status |-> "ok", err |-> "nil", isDirectory |-> isDir,
             aceList |-> <<>>, curAtom |-> 0,
             reads |-> {}, starts |-> <<>>, whoLens |-> <<>>,
             padsZero |-> TRUE, numAces |-> 0]
  IN IF BufferTooShort(val.len)
       THEN [s0 EXCEPT !.status = "error", !.err = "invalid input buffer 'value'"]
     ELSE LET numAces == BigEndianUint32(val.bytes, 0)
          IN LoadLoop(val, numAces, 0,
               [s0 EXCEPT !.curAtom = ATOM_SIZE, !.reads = {0},
                          !.numAces = numAces])

(***************************************************************************)
(* Encoder.  PackXAttr allocates XAttrSize() zero bytes and writes into    *)
(* them at a cursor; a write that does not fit the buffer panics.          *)
(***************************************************************************)
RECURSIVE SizeLoop(_, _)
SizeLoop(aceList, i) ==
  IF i > Len(aceList) THEN 0
  ELSE (ATOM_SIZE * 4) + AceWhoStringAtomLength(Len(aceList[i].Who))
       + SizeLoop(aceList, i + 1)

XAttrSizeNoCount(a) == SizeLoop(a.aceList, 1)

XAttrSize(a) == ATOM_SIZE + SizeLoop(a.aceList, 1)

\* make([]byte, n, n)
MakeBytes(n) == [i \in 1..n |-> 0]

\* copy(buf[off:], src): copies min(len(buf) - off, len(src)) bytes
CopyAt(buf, off, src) ==
  [i \in 1..Len(buf) |->
     IF i > off /\ i <= off + Len(src) THEN src[i - off] ELSE buf[i]]

\* binary.BigEndian.PutUint32(s.xattr[s.currAtom:], v); currAtom += ATOM_SIZE
PutAtom(s, v) ==
  IF s.status # "ok" THEN s
  ELSE IF s.currAtom + ATOM_SIZE > Len(s.xattr)
    THEN [s EXCEPT !.status = "panic"]
  ELSE [s EXCEPT !.xattr = CopyAt(@, s.currAtom, BigEndianPutUint32(v)),
                 !.currAtom = @ + ATOM_SIZE]

\* copy(s.xattr[s.currAtom:], who); currAtom += AceWhoStringAtomLength(whoLen)
PutWho(s, who) ==
  IF s.status # "ok" THEN s
  ELSE IF s.currAtom > Len(s.xattr)
    THEN [s EXCEPT !.status = "panic"]
  ELSE [s EXCEPT !.xattr = CopyAt(@, s.currAtom, who),
                 !.currAtom = @ + AceWhoStringAtomLength(Len(who))]

RECURSIVE PackLoop(_, _, _)
PackLoop(aceList, i, s) ==
  IF i > Len(aceList) THEN s
  ELSE LET ace == aceList[i]
       IN PackLoop(aceList, i + 1,
            PutWho(PutAtom(PutAtom(PutAtom(PutAtom(s, ace.AceType), ace.Flags),
                                   ace.AccessMask), Len(ace.Who)), ace.Who))

\* an ACL without entries refused with an error
PackXAttrNonEmpty(a) ==
  LET aclSize == XAttrSize(a)
      s0 == [status |-> "ok", err |-> "nil", xattr |-> MakeBytes(aclSize),
             currAtom |-> 0]
  IN IF Len(a.aceList) = 0 THEN [s0 EXCEPT !.err = "empty acl", !.xattr = <<>>]
     ELSE PackLoop(a.aceList, 1, PutAtom(s0, Len(a.aceList)))

PackXAttr(a) ==
  LET aclSize == XAttrSize(a)
      s0 == [status |-> "ok", err |-> "nil", xattr |-> MakeBytes(aclSize),
             currAtom |-> 0]
  IN PackLoop(a.aceList, 1, PutAtom(s0, Len(a.aceList)))

(***************************************************************************)
(* ACL mutation API.  Each operator is the ACL's entry list after the      *)
(* call; the ByWhoType operators also give the returned error.             *)
(***************************************************************************)
ApplyAccessMask(aceList, accessMask) ==
  [i \in 1..Len(aceList) |-> applyAccessMask(aceList[i], accessMask)]

RemoveAccessMask(aceList, accessMask) ==
  [i \in 1..Len(aceList) |-> removeAccessMask(aceList[i], accessMask)]

SetAccessMask(aceList, accessMask) ==
  [i \in 1..Len(aceList) |-> setAccessMask(aceList[i], accessMask)]

\* the guard without its NAMED case
WhoTypeErrorRangeOnly(whoType) ==
  IF whoType < NFS4_ACL_WHO_NAMED \/ whoType > NFS4_ACL_WHO_EVERYONE
    THEN "unsupported who type"
  ELSE "nil"

\* lines 275-279 (and 312-316, 349-353): the whoType guard; whoType is a uint
WhoTypeError(whoType) ==
  IF whoType = NFS4_ACL_WHO_NAMED THEN "named who not allowed"
  ELSE IF whoType < NFS4_ACL_WHO_NAMED \/ whoType > NFS4_ACL_WHO_EVERYONE
    THEN "unsupported who type"
  ELSE "nil"

ApplyAccessMaskByWhoType(aceList, accessMask, whoType) ==
  IF WhoTypeError(whoType) # "nil" THEN aceList
  ELSE [i \in 1..Len(aceList) |->
          IF aceList[i].WhoType = whoType
            THEN applyAccessMask(aceList[i], accessMask) ELSE aceList[i]]

\* the selection inverted: ace.WhoType != whoType
RemoveAccessMaskByWhoTypeOthers(aceList, accessMask, whoType) ==
  IF WhoTypeError(whoType) # "nil" THEN aceList
  ELSE [i \in 1..Len(aceList) |->
          IF aceList[i].WhoType # whoType
            THEN removeAccessMask(aceList[i], accessMask) ELSE aceList[i]]

RemoveAccessMaskByWhoType(aceList, accessMask, whoType) ==
  IF WhoTypeError(whoType) # "nil" THEN aceList
  ELSE [i \in 1..Len(aceList) |->
          IF aceList[i].WhoType = whoType
            THEN removeAccessMask(aceList[i], accessMask) ELSE aceList[i]]

SetAccessMaskByWhoType(aceList, accessMask, whoType) ==
  IF WhoTypeError(whoType) # "nil" THEN aceList
  ELSE [i \in 1..Len(aceList) |->
          IF aceList[i].WhoType = whoType
            THEN setAccessMask(aceList[i], accessMask) ELSE aceList[i]]

\* the bits applied to the flags of the selected entries (applyFlags)
ApplyAccessMaskByWhoFlags(aceList, accessMask, who) ==
  [i \in 1..Len(aceList) |->
     IF aceList[i].Who = who
       THEN [aceList[i] EXCEPT !.Flags = BitOr(@, accessMask)] ELSE aceList[i]]

ApplyAccessMaskByWho(aceList, accessMask, who) ==
  [i \in 1..Len(aceList) |->
     IF aceList[i].Who = who
       THEN applyAccessMask(aceList[i], accessMask) ELSE aceList[i]]

RemoveAccessMaskByWho(aceList, accessMask, who) ==
  [i \in 1..Len(aceList) |->
     IF aceList[i].Who = who
       THEN removeAccessMask(aceList[i], accessMask) ELSE aceList[i]]

\* the selection by who type instead of by the who string
SetAccessMaskByWhoKind(aceList, accessMask, who) ==
  [i \in 1..Len(aceList) |->
     IF aceList[i].WhoType = AceGetWhoType(who)
       THEN setAccessMask(aceList[i], accessMask) ELSE aceList[i]]

SetAccessMaskByWho(aceList, accessMask, who) ==
  [i \in 1..Len(aceList) |->
     IF aceList[i].Who = who
       THEN setAccessMask(aceList[i], accessMask) ELSE aceList[i]]

RECURSIVE PrintLoop(_, _, _, _)
\* for _, ace := range acl.aceList { ace.PrintACE(verbose, acl.isDirectory) }
PrintLoop(aceList, i, verbose, isDir) ==
  IF i > Len(aceList) THEN <<>>
  ELSE <<PrintACE(aceList[i], verbose, isDir).out>>
         \o PrintLoop(aceList, i + 1, verbose, isDir)

\* acl.PrintACL(verbose): the lines written, in order, and the error returned
PrintACL(a, verbose) ==
  [lines |-> PrintLoop(a.aceList, 1, verbose, a.isDirectory), err |-> "nil"]

(***************************************************************************)
(* Inputs.                                                                 *)
(***************************************************************************)
\* "bob", "user", "owner@" and "OWNER@ "
WHO_BOB == <<98, 111, 98>>
WHO_USER == <<117, 115, 101, 114>>
WHO_LOWER_OWNER == <<111, 119, 110, 101, 114, 64>>
WHO_OWNER_SPACE == NFS4_ACL_WHO_OWNER_STRING \o <<32>>

\* the largest uint32 the model uses, 0x7FFFFFFF
BigAtom == 2147483647

SeqsUpTo(S, n) == UNION {[1..k -> S] : k \in 0..n}

\* arguments <<aceType, flag, mask, who>> of NewNFS4ACE for the codec
AceInputs ==
  { <<NFS4_ACE_ACCESS_ALLOWED_ACE_TYPE, 0, NFS4_ACE_WRITE_DATA,
      NFS4_ACL_WHO_OWNER_STRING>>,
    <<NFS4_ACE_ACCESS_DENIED_ACE_TYPE, 65, 53, NFS4_ACL_WHO_GROUP_STRING>>,
    <<0, BigAtom, BigAtom, NFS4_ACL_WHO_EVERYONE_STRING>>,
    <<3, 1, 53, WHO_BOB>>,
    <<0, 2, 0, <<>> >>,
    <<2, 0, 1, WHO_LOWER_OWNER>>,
    <<1, 512, 3, WHO_OWNER_SPACE>>,
    <<BigAtom, 0, 65536, WHO_USER>> }

\* arguments of NewNFS4ACE for the ACLs the mutation API is run on
MutAceInputs ==
  { <<NFS4_ACE_ACCESS_ALLOWED_ACE_TYPE, 0, 53, NFS4_ACL_WHO_OWNER_STRING>>,
    <<NFS4_ACE_ACCESS_DENIED_ACE_TYPE, 65, 3, NFS4_ACL_WHO_GROUP_STRING>>,
    <<0, 8, 0, NFS4_ACL_WHO_EVERYONE_STRING>>,
    <<3, 1, BigAtom, WHO_BOB>> }

\* accessMask operands, whoType arguments (a uint) and who arguments
MaskInputs == {3}
WhoTypeInputs == 0..(NFS4_ACL_WHO_EVERYONE + 1)
WhoInputs ==
  { NFS4_ACL_WHO_OWNER_STRING, NFS4_ACL_WHO_GROUP_STRING,
    NFS4_ACL_WHO_EVERYONE_STRING, WHO_BOB, WHO_LOWER_OWNER }

\* One entry as laid out in a buffer: the four header atoms (the fourth is
\* the declared who_length) and the bytes that follow them.
WireEntries ==
  { [hdr |-> <<0, 0, 2, 6>>, body |-> NFS4_ACL_WHO_OWNER_STRING \o <<0, 0>>],
    [hdr |-> <<1, 65, 53, 3>>, body |-> WHO_BOB \o <<255>>],
    [hdr |-> <<0, 2, 0, 0>>, body |-> <<>>],
    [hdr |-> <<3, BigAtom, 53, 4>>, body |-> WHO_USER],
    [hdr |-> <<1, 0, 1, 7>>, body |-> WHO_BOB \o <<0>>],
    [hdr |-> <<0, 0, 2, BigAtom>>, body |-> <<>>] }

\* The NewNFS4ACE arguments of the entries given to PrintACE: every type
\* code up to the first one without a name; no flag, each flag alone, two
\* flags, all flags, and a bit that is no flag; no permission, each
\* permission alone, all permissions, a bit that is no permission, all bits.
PrintAceInputs ==
  { <<aceType, flag, mask, who>> :
      aceType \in 0..(NFS4_ACE_SYSTEM_ALARM_ACE_TYPE + 1),
      flag \in {0, 65, 1023, 1024} \cup {2 ^ k : k \in 0..9},
      mask \in {0, 512, 2032127, BigAtom}
                \cup {2 ^ k : k \in 0..8} \cup {2 ^ k : k \in 16..20},
      who \in {NFS4_ACL_WHO_OWNER_STRING, WHO_BOB, <<>>} }

\* the four bytes of a stored atom, most significant first
WireAtom(v) ==
  LET b3 == v \div 16777216
      b2 == (v - b3 * 16777216) \div 65536
      b1 == (v - b3 * 16777216 - b2 * 65536) \div 256
  IN <<b3, b2, b1, v - b3 * 16777216 - b2 * 65536 - b1 * 256>>

WireBytes(e) ==
  WireAtom(e.hdr[1]) \o WireAtom(e.hdr[2]) \o WireAtom(e.hdr[3])
    \o WireAtom(e.hdr[4]) \o e.body

RECURSIVE Flatten(_, _)
Flatten(es, i) == IF i > Len(es) THEN <<>> ELSE WireBytes(es[i]) \o Flatten(es, i + 1)

\* The buffers made of a count atom and the entries es, cut anywhere in the
\* last entry (or in the count atom), with the capacity either equal to the
\* length or reaching to the end of the uncut array.
BuffersOf(count, es) ==
  LET raw     == WireAtom(count) \o Flatten(es, 1)
      lastLen == IF Len(es) = 0 THEN ATOM_SIZE ELSE Len(WireBytes(es[Len(es)]))
  IN { [bytes |-> SubSeq(raw, 1, IF full THEN Len(raw) ELSE n), len |-> n] :
         n \in (Len(raw) - lastLen)..Len(raw), full \in BOOLEAN }

\* The buffers handed to XAttrLoad by the codec specification: the count
\* atom is the number of entries that follow, one less or one more.
Buffers ==
  UNION { UNION { BuffersOf(count, es) :
                    count \in {Len(es) + d : d \in {-1, 0, 1}} \cap Nat } :
            es \in SeqsUpTo(WireEntries, MaxAces) }

\* The stored attributes the mutation specification starts from.
SampleBuffers ==
  { [bytes |-> raw, len |-> Len(raw)] :
      raw \in { WireAtom(1)
                  \o WireBytes([hdr |-> <<0, 0, 2, 6>>,
                                body |-> NFS4_ACL_WHO_OWNER_STRING \o <<0, 0>>]),
                WireAtom(2)
                  \o WireBytes([hdr |-> <<1, 65, 53, 3>>, body |-> WHO_BOB \o <<0>>])
                  \o WireBytes([hdr |-> <<0, 0, 53, 6>>,
                                body |-> NFS4_ACL_WHO_GROUP_STRING \o <<0, 0>>]) } }

\* the errors the operating system answers a call with
OSErrors == {"ENOENT", "ENOTSUP", "EACCES"}

\* The contents system.nfs4_acl can have: the two sample ACLs, the empty
\* attribute, an ACL without entries, an entry that ends with its header, and
\* an entry cut inside its who.
StoredAttrs ==
  { SubSeq(v.bytes, 1, v.len) : v \in SampleBuffers }
    \cup { <<>>,
           <<0, 0, 0, 0>>,
           <<0, 0, 0, 1,  0, 0, 0, 0,  0, 0, 0, 2,  0, 0, 0, 0,  0, 0, 0, 0>>,
           <<0, 0, 0, 1,  0, 0, 0, 0,  0, 0, 0, 0,  0, 0, 0, 2,  0, 0, 0, 6,  79>> }

\* outcomes of os.Stat
StatOutcomes ==
  { [err |-> e, isDir |-> FALSE] : e \in OSErrors }
    \cup { [err |-> "nil", isDir |-> d] : d \in BOOLEAN }

\* outcomes of unix.Getxattr(path, name, nil): an error, or the size of the
\* attribute as it is then
GetxattrSizeOutcomes ==
  { [result |-> 0 - 1, err |-> e] : e \in OSErrors }
    \cup { [result |-> Len(b), err |-> "nil"] : b \in StoredAttrs }

\* outcomes of unix.Getxattr(path, name, xattr) for a buffer of n bytes: an
\* error, or the attribute as it is then when the buffer holds it; an empty
\* buffer makes the call another size query, answered with any size
GetxattrDataOutcomes(n) ==
  { [result |-> 0 - 1, err |-> e, bytes |-> <<>>] : e \in OSErrors \cup {"ERANGE"} }
    \cup { [result |-> Len(b), err |-> "nil", bytes |-> b] :
             b \in { c \in StoredAttrs : Len(c) <= n \/ n = 0 } }

\* outcomes of unix.Setxattr
SetxattrOutcomes == { [err |-> e] : e \in OSErrors \cup {"nil"} }

(***************************************************************************)
(* State.  acl is the ACL the caller holds and old its value before the    *)
(* last call; call and err are the last call and the error it returned;   *)
(* value is the buffer last given to XAttrLoad and xattr the buffer last   *)
(* returned by PackXAttr, both dropped when the ACL is mutated; origin     *)
(* says how the entries of acl came about; trace is what the decoder did.  *)
(* padded is the last call of AceWhoStringAtomLength with its result,      *)
(* stdout the line PrintACE last wrote, and events the calls the OS bridge *)
(* made during its last operation, in order, each with its outcome.        *)
(* pc is "start" before an ACL exists, "ready" while the caller holds one, *)
(* "failed" after a decode error and "panic" after a run-time panic.       *)
(***************************************************************************)
NoBuf == [bytes |-> <<>>, len |-> 0]

NoACL == [isDirectory |-> FALSE, aceList |-> <<>>]

NoTrace ==
  [reads |-> {}, starts |-> <<>>, whoLens |-> <<>>, padsZero |-> TRUE,
   curAtom |-> 0, numAces |-> 0]

\* no call of AceWhoStringAtomLength observed yet
NoPadded == [whoLength |-> 0, whoIncrement |-> 0]

Call(op, accessMask, whoType, who, input) ==
  [op |-> op, accessMask |-> accessMask, whoType |-> whoType, who |-> who,
   input |-> input]

(***************************************************************************)
(* OS bridge.  A call of the operating system is an input: its outcome is  *)
(* the record [result, err] (with the attribute's bytes for a read that    *)
(* succeeds) the caller of the operator supplies.  Every operator returns  *)
(* the calls it made, in order, each as [fn, buf, err]: the function, the  *)
(* bytes given to it and the error it returned.                            *)
(***************************************************************************)
Event(fn, buf, e) == [fn |-> fn, buf |-> buf, err |-> e]

\* the error of PackXAttr returned in place of the one of unix.Setxattr
nfs4_setxattrPackErr(a, set) ==
  LET p == PackXAttr(a)
  IN IF p.status # "ok"
       THEN [status |-> "panic", err |-> "nil", xattr |-> <<>>,
             events |-> <<Event("PackXAttr", <<>>, "panic")>>]
     ELSE [status |-> "ok", err |-> p.err, xattr |-> p.xattr,
           events |-> <<Event("PackXAttr", <<>>, p.err),
                        Event("setxattr", p.xattr, set.err)>>]

\* nfs4_setxattr(path, acl), the outcome of unix.Setxattr being set
nfs4_setxattr(a, set) ==
  LET p == PackXAttr(a)
  IN IF p.status # "ok"
       THEN [status |-> "panic", err |-> "nil", xattr |-> <<>>,
             events |-> <<Event("PackXAttr", <<>>, "panic")>>]
     ELSE [status |-> "ok", err |-> set.err, xattr |-> p.xattr,
           events |-> <<Event("PackXAttr", <<>>, p.err),
                        Event("setxattr", p.xattr, set.err)>>]

\* Nfs4SetACL(path, acl)
Nfs4SetACL(a, set) == nfs4_setxattr(a, set)

\* Nfs4_setacl_for_path(path, acl), the outcome of os.Stat being stat
Nfs4_setacl_for_path(a, stat, set) ==
  IF stat.err # "nil"
    THEN [status |-> "ok", err |-> stat.err, xattr |-> <<>>,
          events |-> <<Event("stat", <<>>, stat.err)>>]
  ELSE LET r == Nfs4SetACL(a, set)
       IN [r EXCEPT !.events = <<Event("stat", <<>>, "nil")>> \o @]

\* Nfs4GetAcl(path, isDir), size and data being the outcomes of the first and
\* of the second unix.Getxattr.  Without an error the ACL returned is nil
\* (hasAcl is FALSE) unless XAttrLoad returned one.
Nfs4GetAcl(size, data, isDir) ==
  LET none   == [status |-> "ok", hasAcl |-> FALSE, err |-> "nil",
                 aceList |-> <<>>, value |-> NoBuf, trace |-> NoTrace,
                 events |-> <<>>]
      first  == Event("getxattr", <<>>, size.err)
      \* xattr := make([]byte, result, result)
      buffer == MakeBytes(size.result)
      second == Event("getxattr", buffer, data.err)
  IN IF size.err # "nil"
       THEN [none EXCEPT !.err = size.err, !.events = <<first>>]
     ELSE IF data.err # "nil"
       THEN [none EXCEPT !.err = data.err, !.events = <<first, second>>]
     ELSE IF data.result > Len(buffer)
       \* xattr[:result] beyond the capacity
       THEN [none EXCEPT !.status = "panic", !.events = <<first, second>>]
     ELSE
       LET val == [bytes |-> CopyAt(buffer, 0, data.bytes), len |-> data.result]
           r   == XAttrLoad(val, isDir)
       IN [status |-> r.status, hasAcl |-> r.status # "panic", err |-> r.err,
           aceList |-> r.aceList, value |-> val,
           trace |-> [reads |-> r.reads, starts |-> r.starts,
                      whoLens |-> r.whoLens, padsZero |-> r.padsZero,
                      curAtom |-> r.curAtom, numAces |-> r.numAces],
           events |-> <<first, second,
                        Event("XAttrLoad", SubSeq(val.bytes, 1, val.len),
                              IF r.status = "panic" THEN "panic" ELSE r.err)>>]

\* Nfs4_getacl_for_path(path): stat gives the error of os.Stat and fi.IsDir()
Nfs4_getacl_for_path(stat, size, data) ==
  IF stat.err # "nil"
    THEN [status |-> "ok", hasAcl |-> FALSE, err |-> stat.err,
          aceList |-> <<>>, value |-> NoBuf, trace |-> NoTrace,
          events |-> <<Event("stat", <<>>, stat.err)>>]
  ELSE LET r == Nfs4GetAcl(size, data, stat.isDir)
       IN [r EXCEPT !.events = <<Event("stat", <<>>, "nil")>> \o @]

Init ==
  /\ pc = "start"
  /\ acl = NoACL
  /\ old = NoACL
  /\ call = Call("none", 0, 0, <<>>, "")
  /\ err = "nil"
  /\ value = NoBuf
  /\ xattr = NoBuf
  /\ origin = "none"
  /\ trace = NoTrace
  /\ padded = NoPadded
  /\ stdout = <<>>
  /\ events = <<>>

\* a caller assembles an ACL from entries made by NewNFS4ACE
Assemble(inputs, isDir) ==
  /\ pc' = "ready"
  /\ acl' = [isDirectory |-> isDir,
             aceList |-> [i \in 1..Len(inputs) |->
                            NewNFS4ACE(inputs[i][1], inputs[i][2],
                                       inputs[i][3], inputs[i][4])]]
  /\ old' = NoACL
  /\ call' = Call("NewNFS4ACE", 0, 0, <<>>, "")
  /\ err' = "nil"
  /\ origin' = "assembled"
  /\ UNCHANGED <<value, xattr, trace>>
  /\ UNCHANGED io

\* acl, err = XAttrLoad(val, isDir)
Decode(val, isDir, input) ==
  LET r == XAttrLoad(val, isDir)
  IN /\ pc' = IF r.status = "ok" THEN "ready"
              ELSE IF r.status = "error" THEN "failed" ELSE "panic"
     /\ acl' = IF r.status = "panic" THEN acl
               ELSE [isDirectory |-> r.isDirectory, aceList |-> r.aceList]
     /\ old' = acl
     /\ call' = Call("XAttrLoad", 0, 0, <<>>, input)
     /\ err' = r.err
     /\ value' = val
     /\ origin' = "decoded"
     /\ trace' = [reads |-> r.reads, starts |-> r.starts, whoLens |-> r.whoLens,
                  padsZero |-> r.padsZero, curAtom |-> r.curAtom,
                  numAces |-> r.numAces]
     /\ UNCHANGED xattr
     /\ UNCHANGED io

\* a caller assembles one of the ACLs over the given NewNFS4ACE arguments
AssembleFrom(aceInputs) ==
  /\ pc = "start"
  /\ \E inputs \in SeqsUpTo(aceInputs, MaxAces), isDir \in BOOLEAN :
       Assemble(inputs, isDir)

\* XAttrLoad on one of the given buffers, obtained from the attribute store
LoadStored(buffers) ==
  /\ pc = "start"
  /\ \E val \in buffers, isDir \in BOOLEAN : Decode(val, isDir, "stored")

\* XAttrLoad(xattr, acl.isDirectory) on the buffer PackXAttr just returned
LoadPacked ==
  /\ pc = "ready"
  /\ call.op = "PackXAttr"
  /\ Decode(xattr, acl.isDirectory, "packed")

\* xattr, err = acl.PackXAttr()
Pack ==
  /\ pc = "ready"
  /\ LET r == PackXAttr(acl)
     IN /\ pc' = IF r.status = "ok" THEN "ready" ELSE "panic"
        /\ xattr' = [bytes |-> r.xattr, len |-> Len(r.xattr)]
        /\ err' = r.err
  /\ old' = acl
  /\ call' = Call("PackXAttr", 0, 0, <<>>, "")
  /\ UNCHANGED <<acl, value, origin, trace>>
  /\ UNCHANGED io

\* a call of the mutation API that leaves entry list aceList and returns e
Mutate(op, accessMask, whoType, who, aceList, e) ==
  /\ pc = "ready"
  /\ pc' = "ready"
  /\ acl' = [acl EXCEPT !.aceList = aceList]
  /\ old' = acl
  /\ call' = Call(op, accessMask, whoType, who, "")
  /\ err' = e
  /\ value' = NoBuf
  /\ xattr' = NoBuf
  /\ origin' = "mutated"
  /\ trace' = NoTrace
  /\ UNCHANGED io

DoApplyAccessMask(m) ==
  Mutate("ApplyAccessMask", m, 0, <<>>, ApplyAccessMask(acl.aceList, m), "nil")

DoRemoveAccessMask(m) ==
  Mutate("RemoveAccessMask", m, 0, <<>>, RemoveAccessMask(acl.aceList, m), "nil")

DoSetAccessMask(m) ==
  Mutate("SetAccessMask", m, 0, <<>>, SetAccessMask(acl.aceList, m), "nil")

DoApplyAccessMaskByWhoType(m, t) ==
  Mutate("ApplyAccessMaskByWhoType", m, t, <<>>,
         ApplyAccessMaskByWhoType(acl.aceList, m, t), WhoTypeError(t))

DoRemoveAccessMaskByWhoType(m, t) ==
  Mutate("RemoveAccessMaskByWhoType", m, t, <<>>,
         RemoveAccessMaskByWhoType(acl.aceList, m, t), WhoTypeError(t))

DoSetAccessMaskByWhoType(m, t) ==
  Mutate("SetAccessMaskByWhoType", m, t, <<>>,
         SetAccessMaskByWhoType(acl.aceList, m, t), WhoTypeError(t))

DoApplyAccessMaskByWho(m, w) ==
  Mutate("ApplyAccessMaskByWho", m, 0, w,
         ApplyAccessMaskByWho(acl.aceList, m, w), "nil")

DoRemoveAccessMaskByWho(m, w) ==
  Mutate("RemoveAccessMaskByWho", m, 0, w,
         RemoveAccessMaskByWho(acl.aceList, m, w), "nil")

DoSetAccessMaskByWho(m, w) ==
  Mutate("SetAccessMaskByWho", m, 0, w,
         SetAccessMaskByWho(acl.aceList, m, w), "nil")

\* The lifecycle of an ACL: decoded or assembled, mutated in place, encoded.
Next ==
  \/ AssembleFrom(MutAceInputs)
  \/ LoadStored(SampleBuffers)
  \/ \E m \in MaskInputs : DoApplyAccessMask(m)
  \/ \E m \in MaskInputs : DoRemoveAccessMask(m)
  \/ \E m \in MaskInputs : DoSetAccessMask(m)
  \/ \E m \in MaskInputs, t \in WhoTypeInputs : DoApplyAccessMaskByWhoType(m, t)
  \/ \E m \in MaskInputs, t \in WhoTypeInputs : DoRemoveAccessMaskByWhoType(m, t)
  \/ \E m \in MaskInputs, t \in WhoTypeInputs : DoSetAccessMaskByWhoType(m, t)
  \/ \E m \in MaskInputs, w \in WhoInputs : DoApplyAccessMaskByWho(m, w)
  \/ \E m \in MaskInputs, w \in WhoInputs : DoRemoveAccessMaskByWho(m, w)
  \/ \E m \in MaskInputs, w \in WhoInputs : DoSetAccessMaskByWho(m, w)
  \/ Pack
  \/ LoadPacked

Spec == Init /\ [][Next]_vars

\* The codec alone, on every generated buffer and every assembled ACL.
NextCodec ==
  \/ AssembleFrom(AceInputs)
  \/ LoadStored(Buffers)
  \/ Pack
  \/ LoadPacked

SpecCodec == Init /\ [][NextCodec]_vars

(***************************************************************************)
(* The padding rule on its own: AceWhoStringAtomLength on every length up  *)
(* to MaxWhoLength.                                                        *)
(***************************************************************************)
\* whoIncrement = AceWhoStringAtomLength(whoLength)
PadLength(whoLength) ==
  /\ padded' = [whoLength |-> whoLength,
                whoIncrement |-> AceWhoStringAtomLength(whoLength)]
  /\ call' = Call("AceWhoStringAtomLength", 0, 0, <<>>, "")
  /\ UNCHANGED <<pc, acl, old, err, value, xattr, origin, trace, stdout, events>>

NextPad == \E whoLength \in 0..MaxWhoLength : PadLength(whoLength)

SpecPad == Init /\ [][NextPad]_vars

(***************************************************************************)
(* Rendering: ACLs of one entry over PrintAceInputs, and the ACLs of the   *)
(* mutation specification, printed by PrintACL.                            *)
(***************************************************************************)
\* a caller assembles an ACL of one entry
AssembleOne(aceInputs) ==
  /\ pc = "start"
  /\ \E input \in aceInputs, isDir \in BOOLEAN : Assemble(<<input>>, isDir)

\* err = acl.PrintACL(verbose)
DoPrintACL(verbose) ==
  /\ pc = "ready"
  /\ LET r == PrintACL(acl, verbose)
     IN /\ stdout' = r.lines
        /\ err' = r.err
  /\ old' = acl
  /\ call' = Call("PrintACL", 0, 0, <<>>, IF verbose THEN "verbose" ELSE "terse")
  /\ UNCHANGED <<pc, acl, value, xattr, origin, trace, padded, events>>

NextPrint ==
  \/ AssembleOne(PrintAceInputs)
  \/ AssembleFrom(MutAceInputs)
  \/ \E verbose \in BOOLEAN : DoPrintACL(verbose)

SpecPrint == Init /\ [][NextPrint]_vars

(***************************************************************************)
(* The OS bridge: an ACL is read from a path, one permission is removed    *)
(* from it as nfs4_setfacl-go does, and it is written back.                *)
(***************************************************************************)
\* the caller's state after acl, err = op(...) returned r
Got(op, isDir, r) ==
  /\ pc' = IF r.status = "panic" THEN "panic"
           ELSE IF ~r.hasAcl THEN "start"
           ELSE IF r.err = "nil" THEN "ready" ELSE "failed"
  /\ acl' = IF r.hasAcl THEN [isDirectory |-> isDir, aceList |-> r.aceList]
            ELSE NoACL
  /\ old' = acl
  /\ call' = Call(op, 0, 0, <<>>, "")
  /\ err' = r.err
  /\ value' = r.value
  /\ xattr' = NoBuf
  /\ origin' = IF r.hasAcl THEN "decoded" ELSE "none"
  /\ trace' = r.trace
  /\ events' = r.events
  /\ UNCHANGED <<padded, stdout>>

\* acl, err = Nfs4GetAcl(path, isDir)
DoNfs4GetAcl ==
  /\ pc = "start"
  /\ \E isDir \in BOOLEAN, size \in GetxattrSizeOutcomes :
       \E data \in GetxattrDataOutcomes(size.result) :
         Got("Nfs4GetAcl", isDir, Nfs4GetAcl(size, data, isDir))

\* acl, err = Nfs4_getacl_for_path(path)
DoNfs4_getacl_for_path ==
  /\ pc = "start"
  /\ \E stat \in StatOutcomes, size \in GetxattrSizeOutcomes :
       \E data \in GetxattrDataOutcomes(size.result) :
         Got("Nfs4_getacl_for_path", stat.isDir,
             Nfs4_getacl_for_path(stat, size, data))

\* err = Nfs4_setacl_for_path(path, acl)
DoNfs4_setacl_for_path ==
  /\ pc = "ready"
  /\ \E stat \in StatOutcomes, set \in SetxattrOutcomes :
       LET r == Nfs4_setacl_for_path(acl, stat, set)
       IN /\ pc' = IF r.status = "panic" THEN "panic" ELSE "ready"
          /\ err' = r.err
          /\ xattr' = [bytes |-> r.xattr, len |-> Len(r.xattr)]
          /\ events' = r.events
  /\ old' = acl
  /\ call' = Call("Nfs4_setacl_for_path", 0, 0, <<>>, "")
  /\ UNCHANGED <<acl, value, origin, trace, padded, stdout>>

NextBridge ==
  \/ DoNfs4GetAcl
  \/ DoNfs4_getacl_for_path
  \/ DoRemoveAccessMask(NFS4_ACE_WRITE_DATA)
  \/ DoNfs4_setacl_for_path

SpecBridge == Init /\ [][NextBridge]_vars

(***************************************************************************)
(* Properties.                                                             *)
(***************************************************************************)
\* the part of a buffer a caller can see: its first len bytes
Visible(buf) == SubSeq(buf.bytes, 1, buf.len)

\* C1: decoding the buffer PackXAttr returned for an ACL, with the ACL's
\* isDirectory, succeeds and yields the ACL's entry list (same length, order
\* and fields).
C1_RoundTrip ==
  (call.op = "XAttrLoad" /\ call.input = "packed") =>
    /\ pc = "ready"
    /\ err = "nil"
    /\ acl.aceList = old.aceList

\* C2 as claimed: re-encoding the ACL decoded from any accepted buffer gives
\* that buffer back byte for byte.
C2_ReencodeAnyAccepted ==
  (call.op = "PackXAttr" /\ origin = "decoded") => Visible(xattr) = Visible(value)

\* C2 as amended: re-encoding the ACL decoded from an accepted buffer gives
\* the buffer back byte for byte when the buffer's padding bytes are zero and
\* the buffer ends exactly where the decoder's cursor ends.
C2_ReencodeCanonical ==
  (call.op = "PackXAttr" /\ origin = "decoded"
     /\ trace.padsZero /\ trace.curAtom = value.len) =>
    /\ pc = "ready"
    /\ err = "nil"
    /\ xattr.len = value.len
    /\ Visible(xattr) = Visible(value)

\* C2 witness: a canonical two-entry buffer, the first entry with an empty
\* who and the last with a padded who, has been decoded and re-encoded.
C2_Witness ==
  /\ call.op = "PackXAttr"
  /\ origin = "decoded"
  /\ trace.padsZero
  /\ trace.curAtom = value.len
  /\ Len(acl.aceList) = 2
  /\ acl.aceList[1].Who = <<>>
  /\ Len(acl.aceList[2].Who) = 6
  /\ value.len = 44

\* C3: when a header's who_length exceeds the bytes left in the buffer after
\* the header, XAttrLoad returns an error and reads nothing past the end.
C3_WhoLengthRejected ==
  (call.op = "XAttrLoad"
     /\ \E i \in 1..Len(trace.whoLens) :
          trace.whoLens[i] > value.len - (trace.starts[i] + 4 * ATOM_SIZE)) =>
    /\ pc = "failed"
    /\ err # "nil"
    /\ \A r \in trace.reads : r < value.len

\* C4: when XAttrLoad returns an error, the ACL it returns holds no entry.
C4_AllOrNothing ==
  (call.op = "XAttrLoad" /\ pc = "failed") => acl.aceList = <<>>

\* C5: a buffer of fewer than 4 bytes is rejected before anything is read;
\* when a declared entry starts with fewer than 16 bytes left, XAttrLoad
\* returns an error and reads nothing at or after that entry's start.
C5_ShortBuffersRejected ==
  call.op = "XAttrLoad" =>
    /\ value.len < 4 => (pc = "failed" /\ err # "nil" /\ trace.reads = {})
    /\ \A i \in 1..Len(trace.starts) :
         (trace.numAces >= 1 /\ value.len - trace.starts[i] < 16) =>
           /\ pc = "failed"
           /\ err # "nil"
           /\ \A r \in trace.reads : r < trace.starts[i]

\* C5 witness: the second declared entry starts with 1..15 bytes left, after
\* a first entry was parsed, and the decode failed.
C5_Witness ==
  /\ call.op = "XAttrLoad"
  /\ pc = "failed"
  /\ Len(trace.starts) = 2
  /\ Len(trace.whoLens) = 1
  /\ value.len - trace.starts[2] \in 1..15

\* the by-who-type operations of the mutation API
ByWhoTypeOps ==
  {"ApplyAccessMaskByWhoType", "RemoveAccessMaskByWhoType", "SetAccessMaskByWhoType"}

\* the by-literal-who operations of the mutation API
ByWhoOps == {"ApplyAccessMaskByWho", "RemoveAccessMaskByWho", "SetAccessMaskByWho"}

\* bit b (0..30) of n
Bit(n, b) == (n \div (2 ^ b)) % 2

\* n is o OR m, bit by bit
IsOr(n, o, m) ==
  \A b \in 0..30 : Bit(n, b) = (IF Bit(o, b) = 1 \/ Bit(m, b) = 1 THEN 1 ELSE 0)

\* n is o AND NOT m, bit by bit
IsAndNot(n, o, m) ==
  \A b \in 0..30 : Bit(n, b) = (IF Bit(o, b) = 1 /\ Bit(m, b) = 0 THEN 1 ELSE 0)

\* n is f(o, m) for the f of the operation named op
IsMasked(op, n, o, m) ==
  IF op \in {"ApplyAccessMask", "ApplyAccessMaskByWhoType", "ApplyAccessMaskByWho"}
    THEN IsOr(n, o, m)
  ELSE IF op \in {"RemoveAccessMask", "RemoveAccessMaskByWhoType",
                  "RemoveAccessMaskByWho"}
    THEN IsAndNot(n, o, m)
  ELSE n = m

\* entry n is entry o with its access mask replaced by f(old, operand) if
\* selected, and is entry o otherwise
EntryAfter(n, o, selected) ==
  /\ n.AceType = o.AceType
  /\ n.Who = o.Who
  /\ n.WhoType = o.WhoType
  /\ n.Flags = o.Flags
  /\ IF selected THEN IsMasked(call.op, n.AccessMask, o.AccessMask, call.accessMask)
     ELSE n.AccessMask = o.AccessMask

\* C6: a by-who-type call with whoType NAMED (0) or above EVERYONE (3)
\* returns an error and leaves every entry and the entry order as they were.
C6_TargetingRejection ==
  (call.op \in ByWhoTypeOps /\ (call.whoType = 0 \/ call.whoType > 3)) =>
    /\ err # "nil"
    /\ acl = old

\* C6 witness: SetAccessMaskByWhoType with whoType NAMED was rejected on an
\* ACL holding a NAMED entry whose mask differs from the operand.
C6_Witness ==
  /\ call.op = "SetAccessMaskByWhoType"
  /\ call.whoType = 0
  /\ err # "nil"
  /\ \E i \in 1..Len(acl.aceList) :
       acl.aceList[i].WhoType = 0 /\ acl.aceList[i].AccessMask # call.accessMask

\* C7: ApplyAccessMask(m) leaves every entry's mask at old OR m,
\* RemoveAccessMask(m) at old AND NOT m and SetAccessMask(m) at m; with
\* old = 53 (0b00110101) and m = 3 the results are 55, 52 and 3.
C7_MaskSemantics ==
  call.op \in {"ApplyAccessMask", "RemoveAccessMask", "SetAccessMask"} =>
    /\ Len(acl.aceList) = Len(old.aceList)
    /\ \A i \in 1..Len(acl.aceList) :
         LET n == acl.aceList[i].AccessMask
             o == old.aceList[i].AccessMask
             m == call.accessMask
         IN /\ IsMasked(call.op, n, o, m)
            /\ (o = 53 /\ m = 3) =>
                 n = (IF call.op = "ApplyAccessMask" THEN 55
                      ELSE IF call.op = "RemoveAccessMask" THEN 52 ELSE 3)

\* C7 witness: RemoveAccessMask(3) took an entry's mask from 53 to 52.
C7_Witness ==
  /\ call.op = "RemoveAccessMask"
  /\ call.accessMask = 3
  /\ \E i \in 1..Len(acl.aceList) :
       old.aceList[i].AccessMask = 53 /\ acl.aceList[i].AccessMask = 52

\* the well-known who string of who type t in 1..3
TokenOf(t) ==
  IF t = 1 THEN <<79, 87, 78, 69, 82, 64>>
  ELSE IF t = 2 THEN <<71, 82, 79, 85, 80, 64>>
  ELSE <<69, 86, 69, 82, 89, 79, 78, 69, 64>>

\* C8: a by-who-type call with whoType OWNER, GROUP or EVERYONE returns no
\* error, replaces the mask of exactly the entries of that who type by
\* f(old, operand) and leaves every other entry unchanged.
C8_ByWhoTypeTargeting ==
  (call.op \in ByWhoTypeOps /\ call.whoType \in 1..3) =>
    /\ err = "nil"
    /\ Len(acl.aceList) = Len(old.aceList)
    /\ \A i \in 1..Len(acl.aceList) :
         EntryAfter(acl.aceList[i], old.aceList[i],
                    old.aceList[i].Who = TokenOf(call.whoType))

\* C8 witness: RemoveAccessMaskByWhoType(3, GROUP) changed a GROUP@ entry and
\* kept the mask 53 of an entry of another who type.
C8_Witness ==
  /\ call.op = "RemoveAccessMaskByWhoType"
  /\ call.whoType = 2
  /\ call.accessMask = 3
  /\ \E i, j \in 1..Len(acl.aceList) :
       /\ acl.aceList[i].WhoType = 2
       /\ acl.aceList[i].AccessMask # old.aceList[i].AccessMask
       /\ acl.aceList[j].WhoType # 2
       /\ acl.aceList[j].AccessMask = 53

\* C9: a by-literal-who call with string w replaces the mask of exactly the
\* entries whose who equals w by f(old, operand), leaves every other entry
\* unchanged and returns no error, also when nothing matches and when w is
\* OWNER@, GROUP@ or EVERYONE@.
C9_ByWhoTargeting ==
  call.op \in ByWhoOps =>
    /\ err = "nil"
    /\ Len(acl.aceList) = Len(old.aceList)
    /\ \A i \in 1..Len(acl.aceList) :
         EntryAfter(acl.aceList[i], old.aceList[i], old.aceList[i].Who = call.who)
    /\ (\A i \in 1..Len(old.aceList) : old.aceList[i].Who # call.who) => acl = old

\* C9 witness: SetAccessMaskByWho(3, "owner@") matched nothing and left a
\* NAMED entry with another mask in place.
C9_Witness ==
  /\ call.op = "SetAccessMaskByWho"
  /\ call.who = <<111, 119, 110, 101, 114, 64>>
  /\ err = "nil"
  /\ acl = old
  /\ \E i \in 1..Len(acl.aceList) :
       acl.aceList[i].WhoType = 0 /\ acl.aceList[i].AccessMask # call.accessMask

\* C10: the who type of an entry made by NewNFS4ACE is OWNER for exactly
\* "OWNER@", GROUP for exactly "GROUP@", EVERYONE for exactly "EVERYONE@" and
\* NAMED for every other who, the empty string, "owner@" and "OWNER@ "
\* included.
C10_WhoTypeDerivation ==
  (call.op \in {"NewNFS4ACE", "XAttrLoad"} /\ pc # "panic") =>
    \A i \in 1..Len(acl.aceList) :
      LET who == acl.aceList[i].Who
          t   == acl.aceList[i].WhoType
      IN /\ t = 1 <=> who = <<79, 87, 78, 69, 82, 64>>
         /\ t = 2 <=> who = <<71, 82, 79, 85, 80, 64>>
         /\ t = 3 <=> who = <<69, 86, 69, 82, 89, 79, 78, 69, 64>>
         /\ t \in 0..3
         /\ who \in { <<>>, <<111, 119, 110, 101, 114, 64>>,
                      <<79, 87, 78, 69, 82, 64, 32>> } => t = 0

\* C10 witness: an assembled ACL holds "OWNER@" with who type OWNER next to
\* "OWNER@ " with who type NAMED.
C10_Witness ==
  /\ call.op = "NewNFS4ACE"
  /\ Len(acl.aceList) = 2
  /\ acl.aceList[1].Who = <<79, 87, 78, 69, 82, 64>>
  /\ acl.aceList[1].WhoType = 1
  /\ acl.aceList[2].Who = <<79, 87, 78, 69, 82, 64, 32>>
  /\ acl.aceList[2].WhoType = 0

\* C11: the result of AceWhoStringAtomLength(n), n >= 0, is the smallest
\* multiple of 4 that is at least n: it is a multiple of 4, it is not below n
\* and it exceeds n by less than 4; so a multiple of 4 (0 included) comes back
\* unchanged, and 0, 4, 5, 7 give 0, 4, 8, 8.
C11_PaddingRule ==
  call.op = "AceWhoStringAtomLength" =>
    LET n == padded.whoLength
        r == padded.whoIncrement
    IN /\ r % 4 = 0
       /\ r >= n
       /\ r - n < 4
       /\ (\E k \in 0..n : n = 4 * k) => r = n
       /\ n = 0 => r = 0
       /\ n = 4 => r = 4
       /\ n = 5 => r = 8
       /\ n = 7 => r = 8

C11_Witness ==
  /\ call.op = "AceWhoStringAtomLength"
  /\ padded.whoLength = 5
  /\ padded.whoIncrement = 8

\* the stored form of one entry: four atoms, the who bytes, zeros up to the
\* next multiple of 4
WireEntryOf(ace) ==
  LET n == Len(ace.Who)
  IN [hdr  |-> <<ace.AceType, ace.Flags, ace.AccessMask, n>>,
      body |-> ace.Who \o [i \in 1..(((n + 3) \div 4) * 4 - n) |-> 0]]

RECURSIVE PaddedSum(_, _)
PaddedSum(aceList, i) ==
  IF i > Len(aceList) THEN 0
  ELSE 16 + ((Len(aceList[i].Who) + 3) \div 4) * 4 + PaddedSum(aceList, i + 1)

\* C12: PackXAttr returns, for every ACL, a buffer of exactly
\* 4 + sum over the entries of (16 + padded length of who) bytes, which is
\* XAttrSize(); the buffer is the big-endian entry count followed by the
\* entries in ACL order, each as the atoms type, flags, access_mask, len(who),
\* the who bytes and zero bytes up to the next 4-byte boundary.
C12_EncoderLayout ==
  call.op = "PackXAttr" =>
    /\ pc = "ready"
    /\ xattr.len = 4 + PaddedSum(acl.aceList, 1)
    /\ xattr.len = XAttrSize(acl)
    /\ Len(xattr.bytes) = xattr.len
    /\ Visible(xattr) =
         WireAtom(Len(acl.aceList))
           \o Flatten([i \in 1..Len(acl.aceList) |-> WireEntryOf(acl.aceList[i])], 1)

C12_Witness ==
  /\ call.op = "PackXAttr"
  /\ Len(acl.aceList) = 2
  /\ Len(acl.aceList[1].Who) = 7
  /\ Len(acl.aceList[2].Who) = 4
  /\ xattr.len = 48

\* the atom stored at byte offset off of the byte sequence b
AtomAt(b, off) ==
  b[off + 1] * 16777216 + b[off + 2] * 65536 + b[off + 3] * 256 + b[off + 4]

RECURSIVE EntryStart(_, _)
\* the byte offset at which the i-th stored entry of b begins
EntryStart(b, i) ==
  IF i = 1 THEN 4
  ELSE LET prev == EntryStart(b, i - 1)
       IN prev + 16 + ((AtomAt(b, prev + 12) + 3) \div 4) * 4

\* the 28 bytes [1][0][0][2][6] "OWNER@" 0 0
ScenarioBuffer ==
  <<0, 0, 0, 1,  0, 0, 0, 0,  0, 0, 0, 0,  0, 0, 0, 2,  0, 0, 0, 6,
    79, 87, 78, 69, 82, 64, 0, 0>>

\* C13: whenever XAttrLoad succeeds on a buffer b, the returned ACL has as
\* many entries as the count atom of b says, in wire order; entry i has the
\* type, flags and access_mask of its three header atoms, as who the first
\* who_length bytes of b after its header, and the who_type derived from that
\* who.  The 28-byte buffer [1][0][0][2][6]"OWNER@"+2 yields the single entry
\* ALLOW, flags 0, WRITE_DATA, "OWNER@", OWNER.
C13_DecoderResult ==
  (call.op = "XAttrLoad" /\ pc = "ready") =>
    LET b == Visible(value)
    IN /\ Len(acl.aceList) = AtomAt(b, 0)
       /\ \A i \in 1..Len(acl.aceList) :
            LET ace   == acl.aceList[i]
                start == EntryStart(b, i)
                n     == AtomAt(b, start + 12)
            IN /\ ace.AceType = AtomAt(b, start)
               /\ ace.Flags = AtomAt(b, start + 4)
               /\ ace.AccessMask = AtomAt(b, start + 8)
               /\ Len(ace.Who) = n
               /\ n <= Len(b) - (start + 16)
               /\ ace.Who = SubSeq(b, start + 17, start + 16 + n)
               /\ ace.WhoType = (IF ace.Who = <<79, 87, 78, 69, 82, 64>> THEN 1
                                 ELSE IF ace.Who = <<71, 82, 79, 85, 80, 64>> THEN 2
                                 ELSE IF ace.Who = <<69, 86, 69, 82, 89, 79, 78, 69, 64>>
                                   THEN 3
                                 ELSE 0)
       /\ b = ScenarioBuffer =>
            acl.aceList = << [AceType |-> 0, WhoType |-> 1,
                              Who |-> <<79, 87, 78, 69, 82, 64>>,
                              Flags |-> 0, AccessMask |-> 2] >>

\* the characters of the table entries <<bit number, character>> whose bit is
\* set in v, in the table's order
CharsOf(v, table) ==
  LET IsSet(e) == Bit(v, e[1]) = 1
      sel == SelectSeq(table, IsSet)
  IN [i \in 1..Len(sel) |-> sel[i][2]]

\* f d n i S F g O G E
FlagChars ==
  << <<0, 102>>, <<1, 100>>, <<2, 110>>, <<3, 105>>, <<4, 83>>, <<5, 70>>,
     <<6, 103>>, <<7, 79>>, <<8, 71>>, <<9, 69>> >>

\* r w a D for list, add-file, add-subdirectory, delete-child
DirectoryChars == << <<0, 114>>, <<1, 119>>, <<2, 97>>, <<6, 68>> >>

\* r w a for read, write, append
FileChars == << <<0, 114>>, <<1, 119>>, <<2, 97>> >>

\* d x t T n N c C o y
CommonChars ==
  << <<16, 100>>, <<5, 120>>, <<7, 116>>, <<8, 84>>, <<3, 110>>, <<4, 78>>,
     <<17, 99>>, <<18, 67>>, <<19, 111>>, <<20, 121>> >>

\* A D U L, and ALLOW DENY AUDIT ALARM
TypeSymbols(verbose) ==
  IF verbose
    THEN << <<65, 76, 76, 79, 87>>, <<68, 69, 78, 89>>, <<65, 85, 68, 73, 84>>,
            <<65, 76, 65, 82, 77>> >>
    ELSE << <<65>>, <<68>>, <<85>>, <<76>> >>

\* ':' FLAGS ':' WHO ':' MASK and the end of the line
AfterType(ace, isDir) ==
  <<58>> \o CharsOf(ace.Flags, FlagChars) \o <<58>> \o ace.Who \o <<58>>
    \o CharsOf(ace.AccessMask, IF isDir THEN DirectoryChars ELSE FileChars)
    \o CharsOf(ace.AccessMask, CommonChars) \o <<10>>

\* C14 as stated: for every ACE and both values of verbose and isDir,
\* PrintACE returns no error and prints TYPE ':' FLAGS ':' WHO ':' MASK, where
\* TYPE is one of A, D, U, L (ALLOW, DENY, AUDIT, ALARM when verbose), FLAGS
\* and MASK have one character per set bit in the fixed order, and WHO is the
\* literal who.
C14_RendererEveryAce ==
  call.op = "PrintACL" =>
    /\ err = "nil"
    /\ Len(stdout) = Len(acl.aceList)
    /\ \A i \in 1..Len(stdout) :
         \E t \in 1..4 :
           stdout[i] = TypeSymbols(call.input = "verbose")[t]
                         \o AfterType(acl.aceList[i], acl.isDirectory)

\* C14, amended: for every ACE whose type code is ALLOW, DENY, AUDIT or ALARM
\* the line is TYPE ':' FLAGS ':' WHO ':' MASK with TYPE the symbol of that
\* type; for any other type code TYPE is empty and the rest of the line is the
\* same.  No error is returned.  For ALLOW, flags 0, who OWNER@, mask
\* WRITE_DATA, not verbose, not a directory the line is A::OWNER@:w.
C14_RendererKnownTypes ==
  call.op = "PrintACL" =>
    /\ err = "nil"
    /\ Len(stdout) = Len(acl.aceList)
    /\ \A i \in 1..Len(stdout) :
         LET ace == acl.aceList[i]
             typ == IF ace.AceType \in 0..3
                      THEN TypeSymbols(call.input = "verbose")[ace.AceType + 1]
                      ELSE <<>>
         IN stdout[i] = typ \o AfterType(ace, acl.isDirectory)
    /\ ( /\ call.input = "terse"
         /\ ~acl.isDirectory
         /\ acl.aceList = << [AceType |-> 0, WhoType |-> 1,
                              Who |-> <<79, 87, 78, 69, 82, 64>>,
                              Flags |-> 0, AccessMask |-> 2] >> )
         => stdout = << <<65, 58, 58, 79, 87, 78, 69, 82, 64, 58, 119, 10>> >>

C14_Witness ==
  /\ call.op = "PrintACL"
  /\ call.input = "terse"
  /\ ~acl.isDirectory
  /\ Len(acl.aceList) = 1
  /\ acl.aceList[1].AceType = 0
  /\ acl.aceList[1].Who = <<79, 87, 78, 69, 82, 64>>
  /\ acl.aceList[1].Flags = 0
  /\ acl.aceList[1].AccessMask = 2
  /\ stdout = << <<65, 58, 58, 79, 87, 78, 69, 82, 64, 58, 119, 10>> >>

RECURSIVE EndsAfterHeader(_, _, _)
\* b holds k more entries from byte offset start on, and ends exactly after
\* the four header atoms of the last of them, whose who_length is 0
EndsAfterHeader(b, start, k) ==
  IF start + 16 > Len(b) THEN FALSE
  ELSE LET n == AtomAt(b, start + 12)
       IN IF k = 1 THEN start + 16 = Len(b) /\ n = 0
          ELSE IF n > Len(b) THEN FALSE
          ELSE EndsAfterHeader(b, start + 16 + ((n + 3) \div 4) * 4, k - 1)

\* C15: a buffer that ends exactly after the four header atoms of its last
\* declared entry, that entry's who_length being 0 (count = 1 followed by
\* exactly 16 bytes, say), is decoded successfully, its last entry having an
\* empty who.
C15_HeaderOnlyEntryAccepted ==
  LET b == Visible(value)
  IN ( /\ call.op = "XAttrLoad"
       /\ Len(b) >= 4
       /\ AtomAt(b, 0) \in 1..(MaxAces + 1)
       /\ EndsAfterHeader(b, 4, AtomAt(b, 0)) )
       => /\ pc = "ready"
          /\ err = "nil"
          /\ Len(acl.aceList) = AtomAt(b, 0)
          /\ acl.aceList[Len(acl.aceList)].Who = <<>>

\* the nine mutation operations
MutationOps ==
  {"ApplyAccessMask", "RemoveAccessMask", "SetAccessMask"}
    \cup ByWhoTypeOps \cup ByWhoOps

\* C16: in every ACL produced by XAttrLoad or from NewNFS4ACE entries and
\* then changed by any sequence of the nine mutation operations, successful
\* or rejected, every entry's who type is the one AceGetWhoType gives for its
\* who: OWNER, GROUP, EVERYONE for the three tokens and NAMED otherwise.
C16_WhoTypeConsistent ==
  \A i \in 1..Len(acl.aceList) :
    acl.aceList[i].WhoType =
      (IF acl.aceList[i].Who = TokenOf(1) THEN 1
       ELSE IF acl.aceList[i].Who = TokenOf(2) THEN 2
       ELSE IF acl.aceList[i].Who = TokenOf(3) THEN 3
       ELSE 0)

\* C16 witness: a rejected by-who-type call on an ACL whose OWNER@ entry
\* carries the mask an earlier Set left, next to a named entry.
C16_Witness ==
  /\ call.op \in ByWhoTypeOps
  /\ err # "nil"
  /\ origin = "mutated"
  /\ \E i, j \in 1..Len(acl.aceList) :
       /\ acl.aceList[i].Who = TokenOf(1)
       /\ acl.aceList[i].WhoType = 1
       /\ acl.aceList[i].AccessMask = 3
       /\ acl.aceList[j].WhoType = 0

\* C17: a mutation operation, in any targeting mode, leaves the number and
\* order of the entries, each entry's type, flags, who and who type, and the
\* ACL's isDirectory as they were; only access masks may differ, so
\* PackXAttr's output keeps its length.  Stated for one operation, it carries
\* over to every sequence.
C17_MutationStability ==
  call.op \in MutationOps =>
    /\ acl.isDirectory = old.isDirectory
    /\ Len(acl.aceList) = Len(old.aceList)
    /\ \A i \in 1..Len(acl.aceList) :
         /\ acl.aceList[i].AceType = old.aceList[i].AceType
         /\ acl.aceList[i].Flags = old.aceList[i].Flags
         /\ acl.aceList[i].Who = old.aceList[i].Who
         /\ acl.aceList[i].WhoType = old.aceList[i].WhoType
    /\ PackXAttr(acl).status = "ok"
    /\ Len(PackXAttr(acl).xattr) = Len(PackXAttr(old).xattr)

\* C17 witness: a by-who call changed the mask of the second of two entries.
C17_Witness ==
  /\ call.op = "ApplyAccessMaskByWho"
  /\ Len(acl.aceList) = 2
  /\ acl.aceList[1] = old.aceList[1]
  /\ acl.aceList[2].AccessMask # old.aceList[2].AccessMask
  /\ acl.aceList[2].Flags = old.aceList[2].Flags

\* C18: PackXAttr returns a nil error for every ACL and leaves the ACL as it
\* was, and the bytes it returns depend on the entry list only: the ACL with
\* the same entries and the other isDirectory value is packed into the same
\* bytes.
C18_EncodeTotal ==
  call.op = "PackXAttr" =>
    LET other == PackXAttr([acl EXCEPT !.isDirectory = ~acl.isDirectory])
    IN /\ pc = "ready"
       /\ err = "nil"
       /\ acl = old
       /\ other.status = "ok"
       /\ other.err = "nil"
       /\ other.xattr = Visible(xattr)

\* C18 witness: an empty ACL, a directory's, packed into its four bytes.
C18_Witness ==
  /\ call.op = "PackXAttr"
  /\ acl.isDirectory
  /\ acl.aceList = <<>>
  /\ err = "nil"
  /\ Visible(xattr) = <<0, 0, 0, 0>>

\* the calls of fn among the calls the last bridge operation made
CallsOf(fn) ==
  LET IsFn(e) == e.fn = fn
  IN SelectSeq(events, IsFn)

\* C19: in Nfs4GetAcl, when the size query or the read that follows it
\* fails, the caller gets that very error and no ACL, nothing is decoded and
\* no call is repeated; in Nfs4_setacl_for_path, when the stat fails the
\* caller gets its error and nothing is written, and otherwise setxattr is
\* called exactly once, with the encoding of the ACL, and the caller gets
\* what it returned, error or success.
C19_ErrorPropagation ==
  /\ call.op = "Nfs4GetAcl" =>
       /\ Len(events) >= 1
       /\ events[1].fn = "getxattr"
       /\ events[1].err # "nil" =>
            /\ err = events[1].err
            /\ Len(events) = 1
            /\ pc = "start"
            /\ acl = NoACL
       /\ events[1].err = "nil" =>
            /\ Len(events) >= 2
            /\ events[2].fn = "getxattr"
            /\ events[2].err # "nil" =>
                 /\ err = events[2].err
                 /\ Len(events) = 2
                 /\ pc = "start"
                 /\ acl = NoACL
       /\ Len(CallsOf("getxattr")) <= 2
       /\ Len(CallsOf("XAttrLoad")) <= 1
       /\ \A i \in 1..Len(events) :
            events[i].fn = "XAttrLoad" =>
              /\ i = 3
              /\ events[1].err = "nil"
              /\ events[2].err = "nil"
  /\ call.op = "Nfs4_setacl_for_path" =>
       /\ Len(events) >= 1
       /\ events[1].fn = "stat"
       /\ Len(CallsOf("stat")) = 1
       /\ acl = old
       /\ events[1].err # "nil" =>
            /\ err = events[1].err
            /\ CallsOf("setxattr") = <<>>
       /\ events[1].err = "nil" =>
            /\ Len(CallsOf("setxattr")) = 1
            /\ CallsOf("setxattr")[1].buf =
                 WireAtom(Len(acl.aceList))
                   \o Flatten([i \in 1..Len(acl.aceList) |->
                                 WireEntryOf(acl.aceList[i])], 1)
            /\ err = CallsOf("setxattr")[1].err

\* C19 witness: the write of a mutated ACL is refused by the operating
\* system and the caller gets that error.
C19_Witness ==
  /\ call.op = "Nfs4_setacl_for_path"
  /\ origin = "mutated"
  /\ Len(acl.aceList) = 2
  /\ Len(CallsOf("setxattr")) = 1
  /\ CallsOf("setxattr")[1].err = "EACCES"
  /\ err = "EACCES"

====
